---- MODULE Spec2Model ----
(***************************************************************************)
(* SkillBridge AI: the generation-and-presentation pipeline.               *)
(*                                                                         *)
(* App (src/App.tsx) owns activeTab, loading, jobData, trainingPlan, quiz  *)
(* and challenges.  JobAnalyzer (src/unnamed/part_000) owns the intake     *)
(* form and calls onAnalyze = handleAnalyze.  The Generation Client        *)
(* (src/types.ts, lines 86-407) wraps one remote request per operation.    *)
(*                                                                         *)
(* JavaScript runs one handler or promise continuation at a time, so every *)
(* action below is one event handler or one continuation, taken whole.     *)
(* The suspension points are exactly the remote requests: a request that   *)
(* has been sent and not yet answered is an entry of `calls`.              *)
(***************************************************************************)
EXTENDS Integers, Sequences, FiniteSets, TLC

(***************************************************************************)
(* Bounds of the model.                                                    *)
(***************************************************************************)
\* handleAnalyze invocations that can be suspended at the same time
MaxRuns == 2
\* refreshQuiz / refreshChallenges invocations suspended at the same time
MaxRefresh == 1
\* handleRun / handleGetHint invocations suspended at the same time
MaxEditorCalls == 1
\* FileReaders of the form reading at the same time
MaxReads == 1

(***************************************************************************)
(* Values.                                                                 *)
(***************************************************************************)
\* JavaScript null, for the object-valued state (jobData, trainingPlan, image)
Null == [null |-> TRUE]

\* JavaScript undefined, for an optional string argument (imageBase64)
Undefined == "<undefined>"

\* Strings the user can type: a string is the sequence of its characters.
InputStrings == {<<>>, <<" ">>, <<"a">>, <<" ", "a">>}

\* String.prototype.trim
RECURSIVE TrimStart(_)
TrimStart(s) ==
    IF s # <<>> /\ Head(s) = " " THEN TrimStart(Tail(s)) ELSE s

RECURSIVE TrimEnd(_)
TrimEnd(s) ==
    IF s # <<>> /\ s[Len(s)] = " " THEN TrimEnd(SubSeq(s, 1, Len(s) - 1)) ELSE s

Trim(s) == TrimEnd(TrimStart(s))

\* A data URL as FileReader.readAsDataURL produces it, kept as the list of
\* its comma-separated segments (what image.split(',') returns).
Images ==
    { [parts |-> <<"data:image/png;base64", "QUJD">>],
      [parts |-> <<"data:">>] }

\* image.split(',')[1]
SplitComma1(img) ==
    IF Len(img.parts) >= 2 THEN img.parts[2] ELSE Undefined

\* enum Tab of App
Tab == {"analysis", "plan", "quiz", "code"}

\* enum CompanyType
CompanyType == {"Product-based", "Service-based", "Startup", "General"}

\* the inline error messages of handleSubmit
ErrCompany == "Please enter a target company name."
ErrText == "Please paste the job description text."
ErrImage == "Please upload a job description image."

(***************************************************************************)
(* Documents of the remote service.  A reply is one of                     *)
(*   reject  : ai.models.generateContent rejects (network failure)         *)
(*   empty   : response.text is empty or missing                           *)
(*   nonjson : response.text is not JSON, JSON.parse throws                *)
(*   json    : response.text parses to `value`                             *)
(* The documents are null and, per operation, one that fits its schema.    *)
(***************************************************************************)
GenAnalysis ==
    [ role |-> "Backend Engineer",
      company |-> <<"a">>,
      type |-> "Product-based",
      skills |-> <<"Java", "AWS">>,
      summary |-> "summary" ]

GenPlan ==
    << [ week |-> "Week 1",
         topic |-> "topic",
         description |-> "description",
         resources |-> <<"search term">> ] >>

GenQuiz ==
    << [ id |-> 1,
         category |-> "Aptitude",
         question |-> "question",
         options |-> <<"x", "y">>,
         correctAnswer |-> 0,
         explanation |-> "explanation" ],
       [ id |-> 2,
         category |-> "Aptitude",
         question |-> "question",
         options |-> <<"x", "y">>,
         correctAnswer |-> 1,
         explanation |-> "explanation" ] >>

GenChallenge(d) ==
    [ title |-> "challenge",
      description |-> <<"description", d>>,
      difficulty |-> d,
      starterCode |-> [python |-> "py", javascript |-> "js", java |-> "java"] ]

GenChallenges ==
    << GenChallenge("Easy"), GenChallenge("Medium"), GenChallenge("Hard") >>

FailureReplies ==
    { [kind |-> "reject"], [kind |-> "empty"], [kind |-> "nonjson"] }

JsonReply(v) == [kind |-> "json", value |-> v]

AnalysisReplies ==
    FailureReplies \cup {JsonReply(Null), JsonReply(GenAnalysis)}

PlanReplies ==
    FailureReplies \cup {JsonReply(GenPlan)}

QuizReplies ==
    FailureReplies \cup {JsonReply(GenQuiz)}

ChallengeReplies ==
    FailureReplies \cup {JsonReply(GenChallenges)}

RepliesFor(op) ==
    CASE op = "analyze" -> AnalysisReplies
      [] op = "plan" -> PlanReplies
      [] op = "quiz" -> QuizReplies
      [] op = "challenges" -> ChallengeReplies

\* Further documents that fit the response schemas.  No schema bounds the
\* length of an array or the range of an integer, and the company of an
\* analysis is a free string.
ForeignAnalysis ==
    [ role |-> "Data Engineer",
      company |-> <<"b">>,
      type |-> "Startup",
      skills |-> <<"SQL">>,
      summary |-> "summary" ]

QuizOutOfRange ==
    << [ id |-> 1,
         category |-> "Technical",
         question |-> "question",
         options |-> <<"x", "y">>,
         correctAnswer |-> 2,
         explanation |-> "explanation" ] >>

ShortChallenges == << GenChallenge("Easy") >>

\* the reply whose text is the JSON document null
NullReply == JsonReply(Null)

(***************************************************************************)
(* Generation Client.  Each operation is an async function: it returns a   *)
(* promise that is either fulfilled with a value or rejected.  `sent` says *)
(* whether the operation gets as far as sending its remote request.        *)
(***************************************************************************)
Fulfilled(v) == [rejected |-> FALSE, value |-> v]
Rejected == [rejected |-> TRUE]

\* a template literal or property read `job.x` throws a TypeError on null
DerefThrows(job) == job = Null

\* fallback of analyzeJobDescription: userProvidedCompany || "Unknown Company"
UnknownCompany ==
    <<"U", "n", "k", "n", "o", "w", "n", " ", "C", "o", "m", "p", "a", "n", "y">>

\* the parts analyzeJobDescription puts before the prompt: the image when
\* imageBase64 is truthy, then the JD text when text is truthy
AnalyzeContents(txt, imageBase64) ==
    (IF imageBase64 \notin {Undefined, ""}
     THEN <<[part |-> "inlineData", data |-> imageBase64]>> ELSE <<>>)
    \o (IF txt # <<>> THEN <<[part |-> "text", data |-> txt]>> ELSE <<>>)

\* variant: a company name of white space counts as none
AnalyzeFallback_Trimmed(userProvidedCompany) ==
    [ role |-> "Software Engineer",
      company |-> IF Trim(userProvidedCompany) # <<>> THEN userProvidedCompany
                  ELSE UnknownCompany,
      type |-> "General",
      skills |-> <<"Problem Solving">>,
      summary |-> "Could not analyze the JD properly. Please try again." ]

AnalyzeFallback(userProvidedCompany) ==
    [ role |-> "Software Engineer",
      company |-> IF userProvidedCompany # <<>> THEN userProvidedCompany
                  ELSE UnknownCompany,
      type |-> "General",
      skills |-> <<"Problem Solving">>,
      summary |-> "Could not analyze the JD properly. Please try again." ]

analyzeJobDescription(text, imageBase64, userProvidedCompany, reply) ==
    IF reply.kind = "json"
    THEN Fulfilled(reply.value)
    ELSE Fulfilled(AnalyzeFallback(userProvidedCompany))

generateStudyPlan(job, reply) ==
    IF DerefThrows(job) THEN Fulfilled(<<>>)
    ELSE IF reply.kind = "json" THEN Fulfilled(reply.value)
    ELSE Fulfilled(<<>>)

generateQuiz(job, reply) ==
    IF DerefThrows(job) THEN Fulfilled(<<>>)
    ELSE IF reply.kind = "json" THEN Fulfilled(reply.value)
    ELSE Fulfilled(<<>>)

TwoSum(job) ==
    [ title |-> "Two Sum",
      description |-> <<"Given an array of integers nums and an integer target, return indices of the two numbers such that they add up to target. (Often asked by ", job.company, ")">>,
      difficulty |-> "Easy",
      starterCode |->
        [ python |-> "def two_sum(nums, target):\n    # Write your code here\n    pass",
          javascript |-> "function twoSum(nums, target) {\n    // Write your code here\n}",
          java |-> "class Solution {\n    public int[] twoSum(int[] nums, int target) {\n        // Write your code here\n        return new int[]{};\n    }\n}" ] ]

\* variant: the fallback is the empty list, as for the plan and the quiz
generateCodeChallenges_EmptyFallback(job, reply) ==
    IF DerefThrows(job) THEN Rejected
    ELSE IF reply.kind = "json" THEN Fulfilled(reply.value)
    ELSE Fulfilled(<<>>)

\* The catch block reads job.company again: with job = null the TypeError of
\* the try block is followed by a second one that nothing catches.
generateCodeChallenges(job, reply) ==
    IF DerefThrows(job) THEN Rejected
    ELSE IF reply.kind = "json" THEN Fulfilled(reply.value)
    ELSE Fulfilled(<<TwoSum(job)>>)

\* An operation sends its request only if building the prompt does not throw.
SendsRequest(op, job) == ~DerefThrows(job)

\* the outcome of a dependent operation, by name
Generate(op, job, reply) ==
    CASE op = "plan" -> generateStudyPlan(job, reply)
      [] op = "quiz" -> generateQuiz(job, reply)
      [] op = "challenges" -> generateCodeChallenges(job, reply)

\* replies to the request of runCodeWithAI
GenResult ==
    [ status |-> "Success",
      testCases |-> << [ input |-> "in", expectedOutput |-> "out",
                         actualOutput |-> "out", passed |-> TRUE ] >>,
      summary |-> "summary" ]

RunReplies == FailureReplies \cup {JsonReply(GenResult)}

\* fallback of runCodeWithAI
RunFallback ==
    [ status |-> "Error",
      errorDetails |-> "Failed to execute code simulation.",
      testCases |-> <<>>,
      summary |-> "System error occurred." ]

\* variant: no catch block, a failure of the request reaches the caller
runCodeWithAI_Rethrows(code, language, problemDescription, reply) ==
    IF reply.kind = "json" THEN Fulfilled(reply.value) ELSE Rejected

runCodeWithAI(code, language, problemDescription, reply) ==
    IF reply.kind = "json" THEN Fulfilled(reply.value) ELSE Fulfilled(RunFallback)

\* replies to the request of getCodeHint: the text is used as it is
HintReplies ==
    { [kind |-> "reject"], [kind |-> "empty"], [kind |-> "text", value |-> "a hint"] }

\* variant: one fallback text for a rejected request and an empty reply
getCodeHint_OneFallback(code, language, problemDescription, reply) ==
    IF reply.kind \in {"reject", "empty"}
    THEN Fulfilled("Try breaking the problem into smaller steps.")
    ELSE Fulfilled(reply.value)

getCodeHint(code, language, problemDescription, reply) ==
    IF reply.kind = "reject"
    THEN Fulfilled("Analyze the constraints and edge cases carefully.")
    ELSE IF reply.kind = "empty"
    THEN Fulfilled("Try breaking the problem into smaller steps.")
    ELSE Fulfilled(reply.value)

(***************************************************************************)
(* State.                                                                  *)
(***************************************************************************)
VARIABLES
    activeTab,      \* App: the view shown
    loading,        \* App: a pipeline run is in progress
    jobData,        \* App: the stored JobAnalysis, or Null
    trainingPlan,   \* App: the stored TrainingPlan, or Null
    quiz,           \* App: the stored QuizQuestion list
    challenges,     \* App: the stored CodeChallenge list
    analyzerTab,    \* JobAnalyzer: its own activeTab, 'text' or 'image'
    text,           \* JobAnalyzer: the pasted job description
    companyName,    \* JobAnalyzer: the target company
    image,          \* JobAnalyzer: the loaded data URL, or Null
    error,          \* JobAnalyzer: the inline error message
    reads,          \* JobAnalyzer: the FileReaders started by handleFile that have not finished
    runs,           \* the suspended handleAnalyze invocations
    calls,          \* the remote requests awaiting their reply, oldest first
    alertOpen,      \* window.alert has been raised and not yet dismissed
    latest,         \* per artifact slot, the request issued last, if it overlaps an older one
    origin,         \* per artifact slot, the analysis its stored value was generated from
    client,         \* a call of the Generation Client made on its own, and its outcome
    quizView,       \* Quiz: activeCategory, currentIdx, selectedOption, showResult, score
    editor,         \* CodeEditor: activeChallengeIdx, language, code, activeTab, isRunning, result, hint, loadingHint
    editorCalls,    \* the requests of handleRun and handleGetHint awaiting their reply
    crashed         \* a render has thrown: React has removed the whole page

appVars == <<activeTab, loading, jobData, trainingPlan, quiz, challenges>>
formVars == <<analyzerTab, text, companyName, image, error, reads>>
vars == <<activeTab, loading, jobData, trainingPlan, quiz, challenges,
          analyzerTab, text, companyName, image, error, reads,
          runs, calls, alertOpen, latest, origin, client,
          quizView, editor, editorCalls, crashed>>
viewVars == <<quizView, editor, editorCalls, crashed>>

RunIds == 1..MaxRuns
DependentOps == {"plan", "quiz", "challenges"}
Slots == {"quiz", "challenges"}

\* owner of a request issued by refreshQuiz / refreshChallenges
Refresh == 0

\* A handleAnalyze invocation: where it is suspended, its local `analysis`,
\* and the results the three dependent promises have produced so far.
IdleRun ==
    [ pc |-> "idle", analysis |-> Null, returned |-> {},
      plan |-> <<>>, quiz |-> <<>>, challenges |-> <<>> ]

NoRequest == [state |-> "none", value |-> <<>>]

\* Quiz: no category chosen (null), no option chosen (null)
NoCategory == "<null>"
NoOption == -1
Categories == {"Aptitude", "Technical", "Core CS", "Domain"}

\* the useState values of Quiz; they are also the state of the next mount
QuizInitial ==
    [ activeCategory |-> NoCategory, currentIdx |-> 0, selectedOption |-> NoOption,
      showResult |-> FALSE, score |-> 0 ]

\* the useState values of CodeEditor
Languages == {"python", "javascript", "java"}
PanelTabs == {"description", "output", "hint"}
EditorInitial ==
    [ activeChallengeIdx |-> 0, language |-> "python", code |-> "",
      activeTab |-> "description", isRunning |-> FALSE, result |-> Null,
      hint |-> "", loadingHint |-> FALSE ]

\* no call of the Generation Client is made outside the App
NoClient == [state |-> "none"]

\* the App and its form after construction
AppInit ==
    /\ activeTab = "analysis"
    /\ loading = FALSE
    /\ jobData = Null
    /\ trainingPlan = Null
    /\ quiz = <<>>
    /\ challenges = <<>>
    /\ analyzerTab = "text"
    /\ text = <<>>
    /\ companyName = <<>>
    /\ image = Null
    /\ error = ""
    /\ reads = 0
    /\ runs = [r \in RunIds |-> IdleRun]
    /\ calls = <<>>
    /\ alertOpen = FALSE
    /\ latest = [s \in Slots |-> NoRequest]
    /\ origin = [s \in Slots |-> Null]
    /\ quizView = QuizInitial
    /\ editor = EditorInitial
    /\ editorCalls = <<>>
    /\ crashed = FALSE

Init ==
    /\ AppInit
    /\ client = NoClient

(***************************************************************************)
(* Helpers on the request list.                                            *)
(***************************************************************************)
Range(seq) == {seq[i] : i \in DOMAIN seq}

RemoveAt(seq, i) == SubSeq(seq, 1, i - 1) \o SubSeq(seq, i + 1, Len(seq))

PendingFor(seq, slot) == {i \in DOMAIN seq : seq[i].op = slot}

\* JobAnalyzer is rendered only on the analysis tab (App.tsx:161-163):
\* leaving the tab unmounts it and its state starts afresh on return; a
\* FileReader that finishes later sets the state of the unmounted component,
\* which has no effect.
FormReset ==
    /\ analyzerTab' = "text"
    /\ text' = <<>>
    /\ companyName' = <<>>
    /\ image' = Null
    /\ error' = ""
    /\ reads' = 0

FormAfter(tab) ==
    IF tab = "analysis" /\ activeTab = "analysis"
    THEN UNCHANGED formVars
    ELSE FormReset

(***************************************************************************)
(* What App renders, and what a render of Quiz and CodeEditor does.        *)
(***************************************************************************)
\* activeTab === Tab.QUIZ && jobData
QuizShown(tab, job) == tab = "quiz" /\ job # Null

\* activeTab === Tab.CODE && jobData && challenges.length > 0
EditorShown(tab, job, chs) == tab = "code" /\ job # Null /\ chs # <<>>

\* questions.filter(q => q.category === activeCategory), [] without category
ActiveQuestions(questions, cat) ==
    IF cat = NoCategory THEN <<>>
    ELSE SelectSeq(questions, LAMBDA q : q.category = cat)

\* Quiz reads currentQ.question when it has questions and a category:
\* currentQ = activeQuestions[currentIdx] is undefined beyond the list
QuizRenderThrows(questions, view) ==
    /\ questions # <<>>
    /\ view.activeCategory # NoCategory
    /\ view.currentIdx >= Len(ActiveQuestions(questions, view.activeCategory))

\* challenges[activeChallengeIdx], Null standing for undefined
ChallengeAt(chs, idx) ==
    IF idx + 1 \in DOMAIN chs THEN chs[idx + 1] ELSE Null

\* CodeEditor reads challenge.difficulty when the list is not empty
EditorRenderThrows(ed, chs) ==
    chs # <<>> /\ ChallengeAt(chs, ed.activeChallengeIdx) = Null

\* variant: the effect leaves the result and the hint alone
EditorEffect_CodeOnly(ed, chs) ==
    LET challenge == ChallengeAt(chs, ed.activeChallengeIdx)
    IN IF challenge # Null
       THEN [ed EXCEPT !.code = challenge.starterCode[ed.language],
                       !.activeTab = "description"]
       ELSE ed

\* useEffect(() => {...}, [challenge, language]) of CodeEditor
EditorEffect(ed, chs) ==
    LET challenge == ChallengeAt(chs, ed.activeChallengeIdx)
    IN IF challenge # Null
       THEN [ed EXCEPT !.code = challenge.starterCode[ed.language],
                       !.result = Null,
                       !.hint = "",
                       !.activeTab = "description"]
       ELSE ed

\* The views after a step of App that has set activeTab, jobData, quiz or
\* challenges.  A component that is not rendered any more loses its state
\* and the replies to its requests; a component rendered anew starts from
\* its useState values and runs its effect; CodeEditor runs its effect
\* again when `challenges` is a new list (newChallenges).
ViewsFollow(newChallenges) ==
    LET was == EditorShown(activeTab, jobData, challenges)
        is == EditorShown(activeTab', jobData', challenges')
    IN /\ quizView' = IF QuizShown(activeTab', jobData') THEN quizView ELSE QuizInitial
       /\ editor' = IF ~is THEN EditorInitial
                    ELSE IF ~was \/ newChallenges THEN EditorEffect(editor, challenges')
                    ELSE editor
       /\ editorCalls' = IF was /\ is THEN editorCalls ELSE <<>>
       /\ crashed' = \/ QuizShown(activeTab', jobData') /\ QuizRenderThrows(quiz', quizView')
                     \/ is /\ EditorRenderThrows(editor', challenges')

(***************************************************************************)
(* JobAnalyzer: the intake form.                                           *)
(***************************************************************************)
\* The form is rendered on the analysis tab.  While isLoading the card that
\* holds it is covered by an overlay (part_000:90-95), which disables
\* nothing: the inputs and the mode buttons still take their events.
FormUsable == activeTab = "analysis"

\* onChange of the company input
SetCompanyName(s) ==
    /\ ~crashed
    /\ ~alertOpen
    /\ FormUsable
    /\ companyName' = s
    /\ error' = ""
    /\ UNCHANGED <<appVars, analyzerTab, text, image, reads, runs, calls, alertOpen, latest, origin>>
    /\ UNCHANGED client
    /\ UNCHANGED viewVars

\* onChange of the textarea, rendered in text mode only
SetText(s) ==
    /\ ~crashed
    /\ ~alertOpen
    /\ FormUsable
    /\ analyzerTab = "text"
    /\ text' = s
    /\ error' = ""
    /\ UNCHANGED <<appVars, analyzerTab, companyName, image, reads, runs, calls, alertOpen, latest, origin>>
    /\ UNCHANGED client
    /\ UNCHANGED viewVars

\* the two mode buttons
SetAnalyzerTab(m) ==
    /\ ~crashed
    /\ ~alertOpen
    /\ FormUsable
    /\ analyzerTab' = m
    /\ error' = ""
    /\ UNCHANGED <<appVars, text, companyName, image, reads, runs, calls, alertOpen, latest, origin>>
    /\ UNCHANGED client
    /\ UNCHANGED viewVars

\* handleFile: a file is dropped or chosen and reader.readAsDataURL is
\* started; the drop zone is rendered in image mode only
handleFile ==
    /\ ~crashed
    /\ ~alertOpen
    /\ FormUsable
    /\ analyzerTab = "image"
    /\ reads < MaxReads
    /\ reads' = reads + 1
    /\ UNCHANGED <<appVars, analyzerTab, text, companyName, image, error,
                   runs, calls, alertOpen, latest, origin>>
    /\ UNCHANGED client
    /\ UNCHANGED viewVars

\* what reader.result holds when the read ends: the data URL, or null after
\* a read error
ReaderResults == Images \cup {Null}

\* reader.onloadend of a reader started by handleFile: setImage(reader.result)
\* and setError(''), whatever the mode is by then
onloadend(result) ==
    /\ ~crashed
    /\ ~alertOpen
    /\ reads > 0
    /\ reads' = reads - 1
    /\ image' = result
    /\ error' = ""
    /\ UNCHANGED <<appVars, analyzerTab, text, companyName,
                   runs, calls, alertOpen, latest, origin>>
    /\ UNCHANGED client
    /\ UNCHANGED viewVars

\* variant: !companyName instead of !companyName.trim()
ValidationError_NoTrim(company, mode, txt, img) ==
    IF company = <<>> THEN ErrCompany
    ELSE IF mode = "text" /\ Trim(txt) = <<>> THEN ErrText
    ELSE IF mode = "image" /\ img = Null THEN ErrImage
    ELSE ""

\* variant: the content of either mode is accepted
ValidationError_AnyContent(company, mode, txt, img) ==
    IF Trim(company) = <<>> THEN ErrCompany
    ELSE IF Trim(txt) = <<>> /\ img = Null
    THEN (IF mode = "text" THEN ErrText ELSE ErrImage)
    ELSE ""

\* the checks of handleSubmit: the message it sets, "" when it goes on
ValidationError(company, mode, txt, img) ==
    IF Trim(company) = <<>> THEN ErrCompany
    ELSE IF mode = "text" /\ Trim(txt) = <<>> THEN ErrText
    ELSE IF mode = "image" /\ img = Null THEN ErrImage
    ELSE ""

\* const base64Data = image ? image.split(',')[1] : undefined
Base64Data(img) == IF img # Null THEN SplitComma1(img) ELSE Undefined

\* variant: the submit button is never disabled
SubmitEnabled_Always(isLoading) == TRUE

\* the submit button is rendered with disabled={isLoading}
SubmitEnabled(isLoading) == ~isLoading

(***************************************************************************)
(* App: handleAnalyze up to its first await.                               *)
(***************************************************************************)
FreeRuns == {r \in RunIds : runs[r].pc = "idle"}

\* variant: the analyze request is sent again right after the first one
handleAnalyze_Twice(txt, imageBase64, company) ==
    /\ FreeRuns # {}
    /\ LET r == CHOOSE x \in FreeRuns : \A y \in FreeRuns : x <= y
           req == [ op |-> "analyze", owner |-> r, text |-> txt,
                    imageBase64 |-> imageBase64, company |-> company ]
       IN /\ runs' = [runs EXCEPT ![r] = [IdleRun EXCEPT !.pc = "analyzing"]]
          /\ calls' = calls \o <<req, req>>
    /\ loading' = TRUE
    /\ UNCHANGED <<activeTab, jobData, trainingPlan, quiz, challenges, alertOpen, latest, origin>>

handleAnalyze(txt, imageBase64, company) ==
    /\ FreeRuns # {}
    /\ LET r == CHOOSE x \in FreeRuns : \A y \in FreeRuns : x <= y
       IN /\ runs' = [runs EXCEPT ![r] = [IdleRun EXCEPT !.pc = "analyzing"]]
          /\ calls' = Append(calls,
                [ op |-> "analyze", owner |-> r, text |-> txt,
                  imageBase64 |-> imageBase64, company |-> company ])
    /\ loading' = TRUE
    /\ UNCHANGED <<activeTab, jobData, trainingPlan, quiz, challenges, alertOpen, latest, origin>>

handleSubmit ==
    /\ ~crashed
    /\ ~alertOpen
    /\ activeTab = "analysis"
    /\ SubmitEnabled(loading)
    /\ LET err == ValidationError(companyName, analyzerTab, text, image)
       IN /\ error' = err
          /\ UNCHANGED <<analyzerTab, text, companyName, image, reads>>
          /\ IF err # ""
             THEN UNCHANGED <<appVars, runs, calls, alertOpen, latest, origin>>
             ELSE handleAnalyze(text, Base64Data(image), companyName)
    /\ UNCHANGED client
    /\ UNCHANGED viewVars

(***************************************************************************)
(* App: the continuations of handleAnalyze.                                *)
(***************************************************************************)
\* variant: the dependent operations are handed the stored jobData
DependentArg_Stored(analysis, stored) == stored

\* the value handed to the three dependent operations (App.tsx:37-39);
\* `stored` is the jobData the handler's closure sees
DependentArg(analysis, stored) == analysis

\* variant: Promise.race, fulfilled with the first promise of the list
JoinReady_Race(returned) == returned # {}

\* Promise.all is fulfilled once every promise of the list is
JoinReady(returned) == returned = DependentOps

\* the request record of a dependent operation
Request(op, owner, job) == [op |-> op, owner |-> owner, job |-> job]

\* bookkeeping: the requests of `ops` have just been issued, `before` being
\* the requests pending until then.  Only a request issued while another
\* one for the same slot is pending is followed up.
Issued(ops, before) ==
    [ s \in Slots |->
        IF s \notin ops THEN latest[s]
        ELSE IF PendingFor(before, s) # {} THEN [state |-> "pending", value |-> <<>>]
        ELSE NoRequest ]

\* bookkeeping: request i has been answered with `value`
Answered(i, value) ==
    [ s \in Slots |->
        IF /\ calls[i].op = s
           /\ latest[s].state = "pending"
           /\ \A j \in PendingFor(calls, s) : j <= i
        THEN [latest[s] EXCEPT !.state = "settled", !.value = value]
        ELSE latest[s] ]

\* catch (error) { alert(...) }: window.alert blocks, the invocation stays
\* in its catch block, with loading still set, until the alert is dismissed
Abort(r) ==
    /\ alertOpen' = TRUE
    /\ runs' = [runs EXCEPT ![r] = [IdleRun EXCEPT !.pc = "alert"]]
    /\ UNCHANGED <<loading, activeTab, trainingPlan, quiz, challenges, formVars, origin>>

\* variant: the tech stack is left empty
TrainingPlanOf_NoStack(analysis, planModules) ==
    [techStack |-> <<>>, studyPlan |-> planModules]

\* setTrainingPlan({ techStack: analysis.skills, studyPlan: planModules })
TrainingPlanOf(analysis, planModules) ==
    [techStack |-> analysis.skills, studyPlan |-> planModules]

\* variant: the join of a run without error leaves loading set
Advance_StaysLoading(r, run) ==
    IF ~JoinReady(run.returned)
    THEN /\ runs' = [runs EXCEPT ![r] = run]
         /\ UNCHANGED <<activeTab, loading, trainingPlan, quiz, challenges,
                        formVars, alertOpen, origin>>
    ELSE IF DerefThrows(run.analysis)
    THEN Abort(r)
    ELSE /\ trainingPlan' = TrainingPlanOf(run.analysis, run.plan)
         /\ quiz' = run.quiz
         /\ challenges' = run.challenges
         /\ origin' = [s \in Slots |-> run.analysis]
         /\ activeTab' = "plan"
         /\ UNCHANGED loading
         /\ runs' = [runs EXCEPT ![r] = IdleRun]
         /\ FormReset
         /\ UNCHANGED alertOpen

\* App.tsx:42-49 and the finally block, or the wait for the other promises
Advance(r, run) ==
    IF ~JoinReady(run.returned)
    THEN /\ runs' = [runs EXCEPT ![r] = run]
         /\ UNCHANGED <<activeTab, loading, trainingPlan, quiz, challenges,
                        formVars, alertOpen, origin>>
    ELSE IF DerefThrows(run.analysis)
    THEN Abort(r)
    ELSE /\ trainingPlan' = TrainingPlanOf(run.analysis, run.plan)
         /\ quiz' = run.quiz
         /\ challenges' = run.challenges
         /\ origin' = [s \in Slots |-> run.analysis]
         /\ activeTab' = "plan"
         /\ loading' = FALSE
         /\ runs' = [runs EXCEPT ![r] = IdleRun]
         /\ FormReset
         /\ UNCHANGED alertOpen

\* App.tsx:42-49 and the finally block once a render has thrown: React has
\* unmounted App, whose state setters do nothing any more, but the promise
\* chain of handleAnalyze goes on: it waits for the other promises, ends,
\* or reads a property of null and raises the alert
AdvanceUnmounted(r, run) ==
    IF JoinReady(run.returned) /\ DerefThrows(run.analysis)
    THEN Abort(r)
    ELSE /\ runs' = [runs EXCEPT ![r] = IF JoinReady(run.returned) THEN IdleRun ELSE run]
         /\ UNCHANGED <<activeTab, loading, trainingPlan, quiz, challenges,
                        formVars, alertOpen, origin>>

\* the reply to analyze arrives: analyzeJobDescription returns, handleAnalyze
\* stores the analysis and calls the three dependent operations.  The
\* continuation runs whether or not the page is still there: after a render
\* has thrown it sends the same requests and raises the same alert, only
\* setJobData has no effect.
AnalyzeReturns(i, reply) ==
    /\ ~alertOpen
    /\ i \in DOMAIN calls
    /\ calls[i].op = "analyze"
    /\ calls[i].owner \in RunIds
    /\ runs[calls[i].owner].pc = "analyzing"
    /\ reply \in AnalysisReplies
    /\ LET c == calls[i]
           r == c.owner
           out == analyzeJobDescription(c.text, c.imageBase64, c.company, reply)
           rest == RemoveAt(calls, i)
       IN IF out.rejected
          THEN /\ Abort(r)
               /\ calls' = rest
               /\ UNCHANGED <<jobData, latest>>
          ELSE LET analysis == out.value
                   arg == DependentArg(analysis, jobData)
                   sent == {op \in DependentOps : SendsRequest(op, arg)}
                   now == DependentOps \ sent
                   res(op) == Generate(op, arg, [kind |-> "reject"])
                   run == [ pc |-> "generating", analysis |-> analysis, returned |-> now,
                            plan |-> IF "plan" \in now THEN res("plan").value ELSE <<>>,
                            quiz |-> IF "quiz" \in now THEN res("quiz").value ELSE <<>>,
                            challenges |-> IF "challenges" \in now /\ ~res("challenges").rejected
                                           THEN res("challenges").value ELSE <<>> ]
               IN /\ jobData' = IF crashed THEN jobData ELSE analysis
                  /\ calls' = rest \o SelectSeq(
                        << Request("plan", r, arg), Request("quiz", r, arg),
                           Request("challenges", r, arg) >>,
                        LAMBDA q : q.op \in sent)
                  /\ latest' = Issued(sent, rest)
                  /\ IF \E op \in now : res(op).rejected
                     THEN Abort(r)
                     ELSE IF crashed
                     THEN AdvanceUnmounted(r, run)
                     ELSE Advance(r, run)
    /\ UNCHANGED client
    /\ IF crashed THEN UNCHANGED viewVars ELSE ViewsFollow(FALSE)

\* the reply to one of the three dependent requests of a run arrives; the
\* continuation runs after a render has thrown too, its setters doing nothing
DependentReturns(i, reply) ==
    /\ ~alertOpen
    /\ i \in DOMAIN calls
    /\ calls[i].op \in DependentOps
    /\ calls[i].owner \in RunIds
    /\ runs[calls[i].owner].pc = "generating"
    /\ calls[i].op \notin runs[calls[i].owner].returned
    /\ reply \in RepliesFor(calls[i].op)
    /\ LET c == calls[i]
           r == c.owner
           out == Generate(c.op, c.job, reply)
       IN /\ calls' = RemoveAt(calls, i)
          /\ UNCHANGED jobData
          /\ IF out.rejected
             THEN Abort(r) /\ UNCHANGED latest
             ELSE /\ latest' = Answered(i, out.value)
                  /\ LET run == [runs[r] EXCEPT ![c.op] = out.value,
                                                 !.returned = @ \cup {c.op}]
                     IN IF crashed THEN AdvanceUnmounted(r, run) ELSE Advance(r, run)
    /\ UNCHANGED client
    /\ IF crashed THEN UNCHANGED viewVars ELSE ViewsFollow(FALSE)

(***************************************************************************)
(* App: refreshQuiz and refreshChallenges.                                 *)
(***************************************************************************)
PendingRefreshes == {i \in DOMAIN calls : calls[i].owner = Refresh}

\* variant: a reply is dropped when a newer request for its slot is pending
StoresReply_IfNewest(isNewest) == isNewest

\* whether a refresh stores the reply it receives; isNewest says that no
\* request for the same slot has been issued since
StoresReply(isNewest) == TRUE

\* variant: a refresh calls both generators
RefreshCalls_Both(op, job) ==
    IF job = Null THEN <<>>
    ELSE <<Request("quiz", Refresh, job), Request("challenges", Refresh, job)>>

\* the requests refreshQuiz (op = "quiz") and refreshChallenges
\* (op = "challenges") issue: none after `if (!jobData) return`
RefreshCalls(op, job) ==
    IF job = Null THEN <<>> ELSE <<Request(op, Refresh, job)>>

\* the Regenerate button of Quiz (Quiz.tsx:73-78), shown by App when
\* activeTab is QUIZ and jobData is set, and by Quiz in its category view
\* (no category is active) when it has questions
refreshQuiz ==
    /\ ~crashed
    /\ ~alertOpen
    /\ activeTab = "quiz"
    /\ jobData # Null
    /\ quiz # <<>>
    /\ quizView.activeCategory = NoCategory
    /\ Cardinality(PendingRefreshes) < MaxRefresh
    /\ calls' = calls \o RefreshCalls("quiz", jobData)
    /\ latest' = Issued({c.op : c \in Range(RefreshCalls("quiz", jobData))}, calls)
    /\ UNCHANGED <<appVars, formVars, runs, alertOpen, origin>>
    /\ UNCHANGED client
    /\ UNCHANGED viewVars

\* the Load New Problems button of CodeEditor (CodeEditor.tsx:102), shown
\* by App when activeTab is CODE, jobData is set and challenges is not empty
refreshChallenges ==
    /\ ~crashed
    /\ ~alertOpen
    /\ activeTab = "code"
    /\ jobData # Null
    /\ challenges # <<>>
    /\ Cardinality(PendingRefreshes) < MaxRefresh
    /\ calls' = calls \o RefreshCalls("challenges", jobData)
    /\ latest' = Issued({c.op : c \in Range(RefreshCalls("challenges", jobData))}, calls)
    /\ UNCHANGED <<appVars, formVars, runs, alertOpen, origin>>
    /\ UNCHANGED client
    /\ UNCHANGED viewVars

\* the reply to a refresh request arrives: setQuiz / setChallenges, which
\* do nothing once a render has thrown and React has unmounted App
RefreshReturns(i, reply) ==
    /\ ~alertOpen
    /\ i \in DOMAIN calls
    /\ calls[i].owner = Refresh
    /\ reply \in RepliesFor(calls[i].op)
    /\ LET c == calls[i]
           out == Generate(c.op, c.job, reply)
           stores == /\ ~crashed
                     /\ ~out.rejected
                     /\ StoresReply(\A j \in PendingFor(calls, c.op) : j <= i)
       IN /\ calls' = RemoveAt(calls, i)
          /\ latest' = IF out.rejected THEN latest ELSE Answered(i, out.value)
          /\ quiz' = IF stores /\ c.op = "quiz" THEN out.value ELSE quiz
          /\ challenges' = IF stores /\ c.op = "challenges" THEN out.value ELSE challenges
          /\ origin' = IF stores THEN [origin EXCEPT ![c.op] = c.job] ELSE origin
          /\ UNCHANGED <<activeTab, loading, jobData, trainingPlan, formVars, runs, alertOpen>>
          /\ IF crashed THEN UNCHANGED viewVars
             ELSE ViewsFollow(stores /\ c.op = "challenges")
    /\ UNCHANGED client

(***************************************************************************)
(* App: navigation and the alert.                                          *)
(***************************************************************************)
\* The sidebar is rendered off the analysis tab; its Analyzer button is
\* always enabled, the other three are disabled while jobData is not set
\* (App.tsx:76-110).  On the analysis tab the only way out is the View
\* Generated Plan button, rendered when jobData is set (App.tsx:164-176).
\* StudyPlan's onBack (App.tsx:187) goes where the Analyzer button goes.
CanNavigate(from, to, job) ==
    IF from = "analysis"
    THEN to = "plan" /\ job # Null
    ELSE to = "analysis" \/ job # Null

\* variant: going back to the analyzer drops the stored analysis
setActiveTab_Resets(t) ==
    /\ ~crashed
    /\ ~alertOpen
    /\ t \in Tab
    /\ CanNavigate(activeTab, t, jobData)
    /\ activeTab' = t
    /\ FormAfter(t)
    /\ jobData' = IF t = "analysis" THEN Null ELSE jobData
    /\ UNCHANGED <<loading, trainingPlan, quiz, challenges,
                   runs, calls, alertOpen, latest, origin>>
    /\ UNCHANGED client
    /\ ViewsFollow(FALSE)

setActiveTab(t) ==
    /\ ~crashed
    /\ ~alertOpen
    /\ t \in Tab
    /\ CanNavigate(activeTab, t, jobData)
    /\ activeTab' = t
    /\ FormAfter(t)
    /\ UNCHANGED <<loading, jobData, trainingPlan, quiz, challenges,
                   runs, calls, alertOpen, latest, origin>>
    /\ UNCHANGED client
    /\ ViewsFollow(FALSE)

\* variant: setLoading(false) only at the end of the try block
DismissAlert_NoFinally ==
    /\ alertOpen
    /\ alertOpen' = FALSE
    /\ runs' = [r \in RunIds |-> IF runs[r].pc = "alert" THEN IdleRun ELSE runs[r]]
    /\ UNCHANGED <<activeTab, loading, jobData, trainingPlan, quiz, challenges,
                   formVars, calls, latest, origin>>
    /\ UNCHANGED client
    /\ UNCHANGED viewVars

\* the user closes the alert, which blocks the page while it is open:
\* alert() returns and the finally block of handleAnalyze runs,
\* setLoading(false), which does nothing once a render has thrown and React
\* has unmounted App
DismissAlert ==
    /\ alertOpen
    /\ alertOpen' = FALSE
    /\ loading' = IF crashed THEN loading ELSE FALSE
    /\ runs' = [r \in RunIds |-> IF runs[r].pc = "alert" THEN IdleRun ELSE runs[r]]
    /\ UNCHANGED <<activeTab, jobData, trainingPlan, quiz, challenges,
                   formVars, calls, latest, origin>>
    /\ UNCHANGED client
    /\ UNCHANGED viewVars

(***************************************************************************)
(* Quiz (src/components/Quiz.tsx).                                         *)
(***************************************************************************)
\* Quiz is rendered and shows more than "Loading assessment..."
QuizUsable ==
    /\ ~alertOpen
    /\ ~crashed
    /\ QuizShown(activeTab, jobData)
    /\ quiz # <<>>

\* the frame of a handler of Quiz, with the render that follows it
QuizRenders ==
    /\ crashed' = QuizRenderThrows(quiz, quizView')
    /\ UNCHANGED <<appVars, formVars, runs, calls, alertOpen, latest, origin, client,
                   editor, editorCalls>>

\* a topic card of the category view
handleCategorySelect(cat) ==
    /\ QuizUsable
    /\ quizView.activeCategory = NoCategory
    /\ quizView' = [ activeCategory |-> cat, currentIdx |-> 0, score |-> 0,
                     selectedOption |-> NoOption, showResult |-> FALSE ]
    /\ QuizRenders

\* the back button of the quiz view, and Finish Topic on the last question
handleBackToTopics ==
    /\ QuizUsable
    /\ quizView.activeCategory # NoCategory
    /\ quizView' = [quizView EXCEPT !.activeCategory = NoCategory]
    /\ QuizRenders

\* variant: an option can be clicked again after the answer is shown
handleSelect_Again(idx) ==
    /\ QuizUsable
    /\ quizView.activeCategory # NoCategory
    /\ LET currentQ == ActiveQuestions(quiz, quizView.activeCategory)[quizView.currentIdx + 1]
       IN /\ idx \in 0..(Len(currentQ.options) - 1)
          /\ quizView' = [quizView EXCEPT
                !.selectedOption = idx,
                !.showResult = TRUE,
                !.score = IF idx = currentQ.correctAnswer THEN @ + 1 ELSE @]
    /\ QuizRenders

\* an option button; the buttons are disabled once showResult is set
handleSelect(idx) ==
    /\ QuizUsable
    /\ quizView.activeCategory # NoCategory
    /\ ~quizView.showResult
    /\ LET currentQ == ActiveQuestions(quiz, quizView.activeCategory)[quizView.currentIdx + 1]
       IN /\ idx \in 0..(Len(currentQ.options) - 1)
          /\ quizView' = [quizView EXCEPT
                !.selectedOption = idx,
                !.showResult = TRUE,
                !.score = IF idx = currentQ.correctAnswer THEN @ + 1 ELSE @]
    /\ QuizRenders

\* Next Question, rendered once showResult is set and not on the last
\* question
handleNext ==
    /\ QuizUsable
    /\ quizView.activeCategory # NoCategory
    /\ quizView.showResult
    /\ quizView.currentIdx # Len(ActiveQuestions(quiz, quizView.activeCategory)) - 1
    /\ quizView' =
          IF quizView.currentIdx < Len(ActiveQuestions(quiz, quizView.activeCategory)) - 1
          THEN [quizView EXCEPT !.currentIdx = @ + 1,
                                !.selectedOption = NoOption,
                                !.showResult = FALSE]
          ELSE quizView
    /\ QuizRenders

(***************************************************************************)
(* CodeEditor (src/components/CodeEditor.tsx).                             *)
(***************************************************************************)
\* what the user types into the editor
EditorTexts == {"typed"}

EditorUsable ==
    /\ ~alertOpen
    /\ ~crashed
    /\ EditorShown(activeTab, jobData, challenges)

\* the frame of a handler of CodeEditor, with the render that follows it
EditorRenders ==
    /\ crashed' = EditorRenderThrows(editor', challenges)
    /\ UNCHANGED <<appVars, formVars, runs, calls, alertOpen, latest, origin, client, quizView>>

\* an entry of the problem list; the effect runs when the challenge changes
setActiveChallengeIdx(idx) ==
    /\ EditorUsable
    /\ idx \in 0..(Len(challenges) - 1)
    /\ editor' = IF idx = editor.activeChallengeIdx THEN editor
                 ELSE EditorEffect([editor EXCEPT !.activeChallengeIdx = idx], challenges)
    /\ UNCHANGED editorCalls
    /\ EditorRenders

\* the language selector; the effect runs when the language changes
setLanguage(l) ==
    /\ EditorUsable
    /\ editor' = IF l = editor.language THEN editor
                 ELSE EditorEffect([editor EXCEPT !.language = l], challenges)
    /\ UNCHANGED editorCalls
    /\ EditorRenders

\* onChange of the textarea
setCode(c) ==
    /\ EditorUsable
    /\ editor' = [editor EXCEPT !.code = c]
    /\ UNCHANGED editorCalls
    /\ EditorRenders

\* the three tab headers of the right panel (setActiveTab of CodeEditor)
setPanelTab(t) ==
    /\ EditorUsable
    /\ editor' = [editor EXCEPT !.activeTab = t]
    /\ UNCHANGED editorCalls
    /\ EditorRenders

\* the request record of runCodeWithAI and getCodeHint
EditorRequest(op, ed, chs) ==
    [ op |-> op, code |-> ed.code, language |-> ed.language,
      problemDescription |-> ChallengeAt(chs, ed.activeChallengeIdx).description ]

\* the Run button, disabled while isRunning
handleRun ==
    /\ EditorUsable
    /\ ~editor.isRunning
    /\ Len(editorCalls) < MaxEditorCalls
    /\ editor' = [editor EXCEPT !.isRunning = TRUE, !.activeTab = "output"]
    /\ editorCalls' = Append(editorCalls, EditorRequest("run", editor, challenges))
    /\ EditorRenders

\* the result handleRun stores when runCodeWithAI rejects
RunCatch ==
    [ status |-> "Error",
      summary |-> "Failed to connect to execution engine.",
      testCases |-> <<>> ]

\* the frame of a continuation of CodeEditor that runs after a render has
\* thrown: the component is unmounted and its state setters do nothing
EditorUnmounted ==
    /\ UNCHANGED <<appVars, formVars, runs, calls, alertOpen, latest, origin, client,
                   quizView, editor, crashed>>

\* the reply to the request of handleRun arrives
RunReturns(i, reply) ==
    /\ ~alertOpen
    /\ EditorShown(activeTab, jobData, challenges)
    /\ i \in DOMAIN editorCalls
    /\ editorCalls[i].op = "run"
    /\ reply \in RunReplies
    /\ editorCalls' = RemoveAt(editorCalls, i)
    /\ IF crashed
       THEN EditorUnmounted
       ELSE /\ LET c == editorCalls[i]
                   out == runCodeWithAI(c.code, c.language, c.problemDescription, reply)
               IN editor' = [editor EXCEPT
                     !.result = IF out.rejected THEN RunCatch ELSE out.value,
                     !.isRunning = FALSE]
            /\ EditorRenders

\* the Hint button
handleGetHint ==
    /\ EditorUsable
    /\ Len(editorCalls) < MaxEditorCalls
    /\ editor' = [editor EXCEPT !.loadingHint = TRUE, !.activeTab = "hint"]
    /\ editorCalls' = Append(editorCalls, EditorRequest("hint", editor, challenges))
    /\ EditorRenders

\* the reply to the request of handleGetHint arrives
HintReturns(i, reply) ==
    /\ ~alertOpen
    /\ EditorShown(activeTab, jobData, challenges)
    /\ i \in DOMAIN editorCalls
    /\ editorCalls[i].op = "hint"
    /\ reply \in HintReplies
    /\ editorCalls' = RemoveAt(editorCalls, i)
    /\ IF crashed
       THEN EditorUnmounted
       ELSE /\ LET c == editorCalls[i]
                   out == getCodeHint(c.code, c.language, c.problemDescription, reply)
               IN editor' = [editor EXCEPT !.hint = out.value, !.loadingHint = FALSE]
            /\ EditorRenders

(***************************************************************************)
(* The Generation Client called on its own: one call with its arguments    *)
(* and the reply of the remote service, then the value it returns.         *)
(***************************************************************************)
ClientAnalyzeReplies == AnalysisReplies \cup {JsonReply(ForeignAnalysis)}
ClientPlanReplies == PlanReplies \cup {JsonReply(<<>>)}
ClientQuizReplies == QuizReplies \cup {JsonReply(QuizOutOfRange)}
ClientChallengeReplies ==
    ChallengeReplies \cup {JsonReply(<<>>), JsonReply(ShortChallenges)}

ClientRepliesFor(op) ==
    CASE op = "plan" -> ClientPlanReplies
      [] op = "quiz" -> ClientQuizReplies
      [] op = "challenges" -> ClientChallengeReplies

\* the JobAnalysis values handed to the dependent operations
ClientJobs ==
    {GenAnalysis, ForeignAnalysis, AnalyzeFallback(<<>>), AnalyzeFallback(<<"a">>)}

\* the imageBase64 arguments
ClientImages == {Undefined, "QUJD"}

\* the code arguments of getCodeHint
ClientCodes == {"", "typed"}

InitClient ==
    /\ AppInit
    /\ \/ client \in [ state : {"called"}, op : {"analyze"}, text : InputStrings,
                       imageBase64 : ClientImages, company : InputStrings,
                       reply : ClientAnalyzeReplies ]
       \/ \E op \in DependentOps : \E job \in ClientJobs :
             \E reply \in ClientRepliesFor(op) :
                client = [state |-> "called", op |-> op, job |-> job, reply |-> reply]
       \/ \E job \in ClientJobs :
             client = [state |-> "called", op |-> "plan", job |-> job, reply |-> NullReply]
       \/ client \in [ state : {"called"}, op : {"hint"}, code : ClientCodes,
                       language : Languages,
                       problemDescription : {TwoSum(GenAnalysis).description},
                       reply : HintReplies ]

\* analyzeJobDescription(text, imageBase64, userProvidedCompany) returns
ClientAnalyze ==
    /\ client.state = "called"
    /\ client.op = "analyze"
    /\ client' = [ state |-> "returned", op |-> "analyze", text |-> client.text,
                   imageBase64 |-> client.imageBase64, company |-> client.company,
                   reply |-> client.reply,
                   out |-> analyzeJobDescription(client.text, client.imageBase64,
                                                 client.company, client.reply) ]
    /\ UNCHANGED <<appVars, formVars, runs, calls, alertOpen, latest, origin, viewVars>>

\* generateStudyPlan(job), generateQuiz(job) or generateCodeChallenges(job)
\* returns
ClientGenerate(op) ==
    /\ client.state = "called"
    /\ client.op = op
    /\ client' = [ state |-> "returned", op |-> op, job |-> client.job,
                   reply |-> client.reply,
                   out |-> Generate(op, client.job, client.reply) ]
    /\ UNCHANGED <<appVars, formVars, runs, calls, alertOpen, latest, origin, viewVars>>

\* getCodeHint(code, language, problemDescription) returns
ClientHint ==
    /\ client.state = "called"
    /\ client.op = "hint"
    /\ client' = [ state |-> "returned", op |-> "hint", code |-> client.code,
                   language |-> client.language,
                   problemDescription |-> client.problemDescription,
                   reply |-> client.reply,
                   out |-> getCodeHint(client.code, client.language,
                                       client.problemDescription, client.reply) ]
    /\ UNCHANGED <<appVars, formVars, runs, calls, alertOpen, latest, origin, viewVars>>

(***************************************************************************)
(* Specifications.                                                         *)
(*                                                                         *)
(* Spec is the whole pipeline: the form is used in text mode, the remote   *)
(* service answers every request in every way, and the artifacts can be    *)
(* refreshed.  SpecIntake is the whole intake form (both modes, strings    *)
(* with white space, images) in front of a remote service that is down.    *)
(***************************************************************************)
\* the strings typed in Spec
PipelineStrings == {<<>>, <<"a">>}

Next ==
    \/ \E s \in PipelineStrings : SetCompanyName(s)
    \/ \E s \in PipelineStrings : SetText(s)
    \/ handleSubmit
    \/ \E i \in DOMAIN calls : \E reply \in AnalysisReplies : AnalyzeReturns(i, reply)
    \/ \E i \in DOMAIN calls : \E reply \in RepliesFor(calls[i].op) : DependentReturns(i, reply)
    \/ refreshQuiz
    \/ refreshChallenges
    \/ \E i \in DOMAIN calls : \E reply \in RepliesFor(calls[i].op) : RefreshReturns(i, reply)
    \/ \E t \in Tab : setActiveTab(t)
    \/ DismissAlert

Spec == Init /\ [][Next]_vars

\* SpecLive is Spec with the assumption that every remote call settles: a
\* request of a pipeline run that awaits its reply is answered in the end,
\* and the continuation of handleAnalyze then runs (the page is single
\* threaded and nothing else can hold it back while a run is in progress).
SpecLive ==
    /\ Spec
    /\ WF_vars(\E i \in DOMAIN calls : \E reply \in AnalysisReplies :
                  AnalyzeReturns(i, reply))
    /\ WF_vars(\E i \in DOMAIN calls : \E reply \in RepliesFor(calls[i].op) :
                  DependentReturns(i, reply))

NextIntake ==
    \/ \E s \in InputStrings : SetCompanyName(s)
    \/ \E s \in InputStrings : SetText(s)
    \/ \E m \in {"text", "image"} : SetAnalyzerTab(m)
    \/ handleFile
    \/ \E result \in ReaderResults : onloadend(result)
    \/ handleSubmit
    \/ \E i \in DOMAIN calls : \E reply \in FailureReplies : AnalyzeReturns(i, reply)
    \/ \E i \in DOMAIN calls : \E reply \in FailureReplies : DependentReturns(i, reply)
    \/ \E t \in Tab : setActiveTab(t)

SpecIntake == Init /\ [][NextIntake]_vars

\* SpecViews is the quiz and the code lab on top of the pipeline.  The
\* remote service answers the requests of a pipeline run with generated
\* documents and a hint request with a text; it answers a refresh either
\* that way or by rejecting the request, and a run of the code in every way.
Generated(op) == RepliesFor(op) \ FailureReplies
Rejects == {[kind |-> "reject"]}
ViewLanguages == {"python", "java"}

NextViews ==
    \/ SetCompanyName(<<"a">>)
    \/ SetText(<<"a">>)
    \/ handleSubmit
    \/ \E i \in DOMAIN calls : AnalyzeReturns(i, JsonReply(GenAnalysis))
    \/ \E i \in DOMAIN calls : \E reply \in Generated(calls[i].op) : DependentReturns(i, reply)
    \/ refreshQuiz
    \/ refreshChallenges
    \/ \E i \in DOMAIN calls : \E reply \in Generated(calls[i].op) \cup Rejects : RefreshReturns(i, reply)
    \/ \E t \in Tab : setActiveTab(t)
    \/ \E cat \in Categories : handleCategorySelect(cat)
    \/ handleBackToTopics
    \/ \E idx \in 0..1 : handleSelect(idx)
    \/ handleNext
    \/ \E idx \in 0..2 : setActiveChallengeIdx(idx)
    \/ \E l \in ViewLanguages : setLanguage(l)
    \/ \E c \in EditorTexts : setCode(c)
    \/ \E t \in PanelTabs : setPanelTab(t)
    \/ handleRun
    \/ \E i \in DOMAIN editorCalls : \E reply \in RunReplies : RunReturns(i, reply)
    \/ handleGetHint
    \/ \E i \in DOMAIN editorCalls : \E reply \in HintReplies \ FailureReplies : HintReturns(i, reply)

SpecViews == Init /\ [][NextViews]_vars

\* SpecClient is the Generation Client alone, one call per behaviour.
NextClient ==
    \/ ClientAnalyze
    \/ \E op \in DependentOps : ClientGenerate(op)
    \/ ClientHint

SpecClient == InitClient /\ [][NextClient]_vars

(***************************************************************************)
(* Properties.                                                             *)
(***************************************************************************)
RunsInFlight == {r \in RunIds : runs[r].pc # "idle"}
RequestsOf(r) == {i \in DOMAIN calls : calls[i].owner = r}
Stored(op) ==
    CASE op = "plan" -> trainingPlan.studyPlan
      [] op = "quiz" -> quiz
      [] op = "challenges" -> challenges

\* C1: a dependent request of a run exists only once the run's analyze call
\* has returned (the run is past its first await and has no analyze request
\* pending), it carries exactly the analysis that call returned, and from
\* then on each of the three operations is either pending or has returned.
C1_AnalyzeBeforeDependents ==
    /\ \A i \in DOMAIN calls :
          (calls[i].owner \in RunIds /\ calls[i].op \in DependentOps) =>
             /\ runs[calls[i].owner].pc = "generating"
             /\ ~\E j \in RequestsOf(calls[i].owner) : calls[j].op = "analyze"
             /\ calls[i].job = runs[calls[i].owner].analysis
    /\ \A r \in RunIds :
          /\ runs[r].pc = "analyzing" =>
                \E j \in RequestsOf(r) : calls[j].op = "analyze"
          /\ runs[r].pc = "generating" =>
                \A op \in DependentOps :
                    (op \in runs[r].returned) # (\E i \in RequestsOf(r) : calls[i].op = op)

\* all three dependent requests of a run are pending, carrying its analysis
C1_Witness ==
    \E r \in RunIds :
        /\ runs[r].pc = "generating"
        /\ runs[r].analysis = GenAnalysis
        /\ Cardinality({i \in RequestsOf(r) : calls[i].job = GenAnalysis}) = 3

\* C2: the step in which a run leaves its join is the step in which the
\* last of its three requests returns: the other two have returned before,
\* their results are the ones stored, every stored artifact is that of the
\* run, and only this step moves the run to the plan view.
C2_JoinNotRace ==
    [][ \A r \in RunIds :
          (runs[r].pc = "generating" /\ runs'[r].pc = "idle" /\ ~alertOpen') =>
             /\ Cardinality(runs[r].returned) = 2
             /\ Cardinality(RequestsOf(r)) = 1
             /\ \A i \in DOMAIN calls' : calls'[i].owner # r
             /\ trainingPlan' # Null
             /\ trainingPlan'.techStack = runs[r].analysis.skills
             /\ \A op \in runs[r].returned : Stored(op)' = runs[r][op]
             /\ activeTab' = "plan"
             /\ loading /\ ~loading' ]_vars

\* a run has joined: its three results are stored and the plan view is shown
C2_Witness ==
    /\ activeTab = "plan"
    /\ ~loading
    /\ RunsInFlight = {}
    /\ trainingPlan # Null
    /\ trainingPlan.studyPlan = GenPlan
    /\ quiz = GenQuiz
    /\ challenges = GenChallenges

\* C3: while a run waits for its three dependent calls, its analysis is not
\* yet what the views read from jobData.
C3_NoPartialCompletion ==
    \A r \in RunIds : runs[r].pc = "generating" => jobData # runs[r].analysis

\* C4: at most one handleAnalyze invocation is suspended, at most one
\* analyze request is pending, and loading is true exactly while there is
\* one.
C4_OneRunInFlight ==
    /\ Cardinality(RunsInFlight) <= 1
    /\ Cardinality({i \in DOMAIN calls : calls[i].op = "analyze"}) <= 1
    /\ loading <=> RunsInFlight # {}

\* the intake view with a blank form while the run is in flight (the view
\* was left and entered again, or the inputs were cleared under the
\* overlay): the run is still the only one
C4_Witness ==
    /\ loading
    /\ activeTab = "analysis"
    /\ companyName = <<>>
    /\ Cardinality(RunsInFlight) = 1

\* the operations handleAnalyze calls when the reply to analyze arrives
RejectsAt(i, reply) ==
    LET out == analyzeJobDescription(calls[i].text, calls[i].imageBase64,
                                     calls[i].company, reply)
    IN \/ out.rejected
       \/ \E op \in DependentOps :
             Generate(op, DependentArg(out.value, jobData), [kind |-> "reject"]).rejected

\* C5: no operation of the Generation Client rejects: not analyze, whatever
\* the reply, not the three operations called with its result, and not an
\* operation whose reply arrives later.
C5_NeverRaises ==
    [][ \A i \in DOMAIN calls :
          /\ \A reply \in AnalysisReplies :
                AnalyzeReturns(i, reply) => ~RejectsAt(i, reply)
          /\ \A reply \in RepliesFor(calls[i].op) :
                (DependentReturns(i, reply) \/ RefreshReturns(i, reply)) =>
                    ~Generate(calls[i].op, calls[i].job, reply).rejected ]_vars

\* C6: with a remote service that fails every request, analyze stores its
\* fallback for the submitted company without an alert, and the run ends
\* only by its join, which leaves loading false, the plan view active, no
\* alert, jobData the analyze fallback, the plan and the quiz empty and
\* challenges exactly the one Two Sum fallback.
C6_AllFailReachesReady ==
    [][ /\ \A i \in DOMAIN calls : \A reply \in FailureReplies :
              AnalyzeReturns(i, reply) =>
                 /\ jobData' = AnalyzeFallback(calls[i].company)
                 /\ runs'[calls[i].owner].pc = "generating"
                 /\ runs'[calls[i].owner].analysis = jobData'
                 /\ ~alertOpen'
        /\ \A r \in RunIds :
              (runs[r].pc # "idle" /\ runs'[r].pc = "idle") =>
                 /\ ~loading'
                 /\ activeTab' = "plan"
                 /\ ~alertOpen'
                 /\ jobData' = runs[r].analysis
                 /\ jobData' = AnalyzeFallback(jobData'.company)
                 /\ trainingPlan' = [techStack |-> <<"Problem Solving">>, studyPlan |-> <<>>]
                 /\ quiz' = <<>>
                 /\ challenges' = <<TwoSum(jobData')>> ]_vars

\* Ready after a run in which every call failed
C6_Witness ==
    /\ ~loading
    /\ ~alertOpen
    /\ activeTab = "plan"
    /\ jobData = AnalyzeFallback(<<"a">>)
    /\ trainingPlan # Null
    /\ challenges = <<TwoSum(AnalyzeFallback(<<"a">>))>>

\* C7: a rejection that reaches handleAnalyze raises the alert; the step
\* that raises it aborts the run: the run holds no request any more, the
\* active tab and the three artifacts are as they were, and jobData holds
\* no analysis.  The alert blocks the page; the step that dismisses it
\* returns the pipeline to Idle: loading is false, no run is left, and the
\* active tab, jobData and the artifacts are as they were.
C7_AbortReturnsToIdle ==
    [][ /\ \A i \in DOMAIN calls : \A reply \in AnalysisReplies :
              (AnalyzeReturns(i, reply) /\ RejectsAt(i, reply)) => alertOpen'
        /\ (~alertOpen /\ alertOpen') =>
              /\ \E r \in RunIds :
                    /\ runs[r].pc \in {"analyzing", "generating"}
                    /\ runs'[r].pc = "alert"
                    /\ \A i \in DOMAIN calls' : calls'[i].owner # r
              /\ activeTab' = activeTab
              /\ trainingPlan' = trainingPlan
              /\ quiz' = quiz
              /\ challenges' = challenges
              /\ jobData' = Null
        /\ (alertOpen /\ ~alertOpen') =>
              /\ ~loading'
              /\ \A r \in RunIds : runs'[r] = IdleRun
              /\ UNCHANGED <<activeTab, jobData, trainingPlan, quiz, challenges>>
      ]_vars

\* Idle again after the alert of a run that failed after an earlier run had
\* reached Ready: the artifacts of the earlier run are still stored
C7_Witness ==
    /\ ~alertOpen
    /\ ~loading
    /\ jobData = Null
    /\ trainingPlan # Null
    /\ RunsInFlight = {}

Slot(s) == IF s = "quiz" THEN quiz ELSE challenges

\* no request for the slot is pending and no run holds a result for it
Quiet(s) == PendingFor(calls, s) = {} /\ RunsInFlight = {}

\* C8 as stated: when a request for a slot was issued while an older one for
\* the same slot was pending, then once all of them have settled the slot
\* holds the value returned to the request issued last.
C8_LatestRequestWins ==
    \A s \in Slots :
        (latest[s].state = "settled" /\ Quiet(s)) => Slot(s) = latest[s].value

\* C8 as amended: a reply is stored when it arrives, whatever has been
\* issued since: a refresh stores the value returned to it in its slot, and
\* the join of a run stores the run's quiz and challenges.
C8_LastResponseWins ==
    [][ \A i \in DOMAIN calls : \A reply \in RepliesFor(calls[i].op) :
          /\ RefreshReturns(i, reply) =>
                \A s \in Slots :
                    calls[i].op = s => Slot(s)' = Generate(s, calls[i].job, reply).value
          /\ (DependentReturns(i, reply) /\ runs'[calls[i].owner].pc = "idle" /\ ~alertOpen') =>
                \A s \in Slots :
                    Slot(s)' = IF calls[i].op = s
                               THEN Generate(s, calls[i].job, reply).value
                               ELSE runs[calls[i].owner][s] ]_vars

\* all requests have settled and the slot holds the value of an older
\* request, not the one returned to the request issued last
C8_Witness ==
    \E s \in Slots :
        /\ latest[s].state = "settled"
        /\ Quiet(s)
        /\ Slot(s) # latest[s].value

\* the pipeline part of the state, which a rejected submit leaves alone
pipelineVars == <<activeTab, loading, jobData, trainingPlan, quiz, challenges,
                  runs, calls, alertOpen, latest>>

\* C9: a submit with an empty or white-space company name sets the inline
\* error and changes nothing of the pipeline: no run, no request.
C9_EmptyCompanyRejected ==
    [][ (handleSubmit /\ Trim(companyName) = <<>>) =>
            /\ error' = ErrCompany
            /\ UNCHANGED pipelineVars ]_vars

\* a white-space company name has been rejected
C9_Witness ==
    /\ companyName = <<" ">>
    /\ error = ErrCompany
    /\ calls = <<>>
    /\ ~loading

\* what C10 calls blocked
Blocked ==
    \/ analyzerTab = "text" /\ Trim(text) = <<>>
    \/ analyzerTab = "image" /\ image = Null

\* C10: with a company name, a submit sets an inline error and starts
\* nothing exactly when the selected mode has no content; otherwise it
\* clears the error and starts one run with one analyze request.
C10_BlockedIffSelectedModeEmpty ==
    [][ (handleSubmit /\ Trim(companyName) # <<>>) =>
            IF Blocked
            THEN /\ error' = (IF analyzerTab = "text" THEN ErrText ELSE ErrImage)
                 /\ UNCHANGED pipelineVars
            ELSE /\ error' = ""
                 /\ loading'
                 /\ Cardinality(RunsInFlight') = Cardinality(RunsInFlight) + 1
                 /\ Len(calls') = Len(calls) + 1
                 /\ calls'[Len(calls')].op = "analyze"
                 /\ calls'[Len(calls')].company = companyName ]_vars

\* text mode with an empty text has been blocked although an image is loaded
C10_Witness ==
    /\ Trim(companyName) # <<>>
    /\ analyzerTab = "text"
    /\ Trim(text) = <<>>
    /\ image # Null
    /\ error = ErrText
    /\ calls = <<>>

\* a direct call of `op` has returned
Returned(op) == client.state = "returned" /\ client.op = op

\* C11: when the analyze request fails (the request is rejected, the reply
\* has no text, or the text is not JSON), analyzeJobDescription is fulfilled
\* with the fixed fallback: the role Software Engineer, the supplied company
\* if it is not the empty string and Unknown Company if it is, the type
\* CompanyType.UNKNOWN, the one skill Problem Solving and the fixed summary.
C11_AnalyzeFallbackOnFailure ==
    (Returned("analyze") /\ client.reply \in FailureReplies) =>
        /\ ~client.out.rejected
        /\ client.out.value =
              [ role |-> "Software Engineer",
                company |-> IF Len(client.company) > 0 THEN client.company
                            ELSE <<"U", "n", "k", "n", "o", "w", "n", " ",
                                   "C", "o", "m", "p", "a", "n", "y">>,
                type |-> "General",
                skills |-> <<"Problem Solving">>,
                summary |-> "Could not analyze the JD properly. Please try again." ]

\* a failed analyze request for a company name that is one blank
C11_Witness ==
    /\ Returned("analyze")
    /\ client.reply = [kind |-> "nonjson"]
    /\ client.company = <<" ">>
    /\ client.out.value.company = <<" ">>

\* C12: for a company name that is not empty and any reply, the analysis
\* that analyzeJobDescription returns names that company and has one of the
\* four company types.
C12_CompanyAndType ==
    (Returned("analyze") /\ client.company # <<>>) =>
        /\ ~client.out.rejected
        /\ client.out.value # Null
        /\ client.out.value.company = client.company
        /\ client.out.value.type \in CompanyType

\* C13: for a JobAnalysis and any reply, generateCodeChallenges returns a
\* list of three entries or the list of the one Two Sum fallback.
C13_ThreeOrTwoSum ==
    (Returned("challenges") /\ client.job # Null) =>
        /\ ~client.out.rejected
        /\ \/ Len(client.out.value) = 3
           \/ /\ Len(client.out.value) = 1
              /\ client.out.value[1].title = "Two Sum"

\* C14: for a JobAnalysis and any reply, every question generateQuiz
\* returns has 0 <= correctAnswer < options.length.
C14_CorrectAnswerInRange ==
    (Returned("quiz") /\ client.job # Null) =>
        /\ ~client.out.rejected
        /\ \A k \in DOMAIN client.out.value :
              /\ 0 <= client.out.value[k].correctAnswer
              /\ client.out.value[k].correctAnswer < Len(client.out.value[k].options)

\* C15: for a JobAnalysis and any reply, generateStudyPlan returns a list,
\* not null, and the list is empty only if the request failed.
C15_PlanIsAList ==
    (Returned("plan") /\ client.job # Null) =>
        /\ ~client.out.rejected
        /\ client.out.value # Null
        /\ (<<>> = client.out.value) => client.reply \in FailureReplies

\* C16: a refresh is local.  refreshQuiz and refreshChallenges issue one
\* request, of their own generator, for the stored analysis, and change
\* nothing else; when the reply arrives only the slot of that generator may
\* change: loading, jobData, trainingPlan, the other slot, the active tab
\* and the pipeline runs are as before.  Without a stored analysis they
\* issue no request.
C16_RefreshIsLocal ==
    [][ /\ refreshQuiz =>
              /\ calls' = Append(calls, [op |-> "quiz", owner |-> Refresh, job |-> jobData])
              /\ UNCHANGED <<appVars, runs>>
        /\ refreshChallenges =>
              /\ calls' = Append(calls, [op |-> "challenges", owner |-> Refresh, job |-> jobData])
              /\ UNCHANGED <<appVars, runs>>
        /\ \A i \in DOMAIN calls : \A reply \in RepliesFor(calls[i].op) :
              RefreshReturns(i, reply) =>
                 /\ Len(calls') = Len(calls) - 1
                 /\ UNCHANGED <<loading, jobData, trainingPlan, activeTab, runs>>
                 /\ calls[i].op = "quiz" => challenges' = challenges
                 /\ calls[i].op = "challenges" => quiz' = quiz
        /\ \A op \in Slots : RefreshCalls(op, Null) = <<>> ]_vars

\* Ready, in the code lab, with the request of refreshChallenges pending
C16_Witness ==
    /\ ~loading
    /\ RunsInFlight = {}
    /\ activeTab = "code"
    /\ calls = <<[op |-> "challenges", owner |-> Refresh, job |-> jobData]>>
    /\ quiz = GenQuiz
    /\ challenges = GenChallenges

\* C17: the study plan, the quiz and the code lab are active only while an
\* analysis is stored.
C17_OnlyIntakeWithoutAnalysis ==
    activeTab \in {"plan", "quiz", "code"} => jobData # Null

\* C18: when no run is in flight and an analysis is stored, a training plan
\* is stored and its tech stack is the list of skills of that analysis.
C18_ReadyBelongsTogether ==
    (RunsInFlight = {} /\ jobData # Null) =>
        /\ trainingPlan # Null
        /\ trainingPlan.techStack = jobData.skills

\* Ready after a run whose analysis is the fallback and whose plan was
\* generated
C18_Witness ==
    /\ RunsInFlight = {}
    /\ ~loading
    /\ jobData = AnalyzeFallback(<<"a">>)
    /\ trainingPlan # Null
    /\ trainingPlan.studyPlan = GenPlan
    /\ quiz = GenQuiz

\* C19: whenever the code lab is on the page after a step in which its
\* active challenge or its language has changed, or in which it has come
\* onto the page, the code in the editor is the starter code of the active
\* challenge for the selected language, and there is no execution result
\* and no hint.
C19_EditorResetOnChange ==
    [][ LET was == EditorShown(activeTab, jobData, challenges) /\ ~crashed
            is == EditorShown(activeTab', jobData', challenges') /\ ~crashed'
            before == ChallengeAt(challenges, editor.activeChallengeIdx)
            after == ChallengeAt(challenges', editor'.activeChallengeIdx)
        IN (is /\ (~was \/ after # before \/ editor'.language # editor.language)) =>
              /\ editor'.code = after.starterCode[editor'.language]
              /\ editor'.result = Null
              /\ editor'.hint = "" ]_vars

\* the selection was changed while a run of typed code was pending: the
\* editor holds the starter code of the new selection and no result
C19_Witness ==
    /\ ~crashed
    /\ EditorShown(activeTab, jobData, challenges)
    /\ editor.activeChallengeIdx = 2
    /\ editor.language = "java"
    /\ editor.code = ChallengeAt(challenges, 2).starterCode["java"]
    /\ editor.result = Null
    /\ editor.isRunning
    /\ editorCalls # <<>>
    /\ editorCalls[1].code = "typed"
    /\ editorCalls[1].language = "python"

\* a step of a view: navigation, the handlers of Quiz and of CodeEditor,
\* and the replies to a run of the code and to a hint request
ViewStep ==
    \/ \E t \in Tab : setActiveTab(t)
    \/ \E cat \in Categories : handleCategorySelect(cat)
    \/ handleBackToTopics
    \/ \E idx \in 0..1 : handleSelect(idx)
    \/ handleNext
    \/ \E idx \in 0..2 : setActiveChallengeIdx(idx)
    \/ \E l \in Languages : setLanguage(l)
    \/ \E c \in EditorTexts : setCode(c)
    \/ \E t \in PanelTabs : setPanelTab(t)
    \/ handleRun
    \/ handleGetHint
    \/ \E i \in DOMAIN editorCalls : \E reply \in RunReplies : RunReturns(i, reply)
    \/ \E i \in DOMAIN editorCalls : \E reply \in HintReplies : HintReturns(i, reply)

\* C20: a step of a view leaves jobData, trainingPlan, quiz and challenges
\* as they are (a step that changes one of them is not a step of a view);
\* jobData changes only in the step in which a run gets the
\* result of its analyze call, and trainingPlan only in the step in which a
\* run leaves its join.
C20_ViewsArePureConsumers ==
    [][ /\ ~UNCHANGED <<jobData, trainingPlan, quiz, challenges>> => ~ViewStep
        /\ jobData' # jobData =>
              \E r \in RunIds : /\ runs[r].pc = "analyzing"
                                /\ runs'[r].pc # "analyzing"
                                /\ loading
        /\ trainingPlan' # trainingPlan =>
              \E r \in RunIds : /\ runs[r].pc = "generating"
                                /\ runs'[r].pc = "idle"
                                /\ loading ]_vars

\* both questions of a category answered correctly, code typed and run,
\* and the artifacts of the run still stored
C20_Witness ==
    /\ activeTab = "quiz"
    /\ quizView.activeCategory = "Aptitude"
    /\ quizView.currentIdx = 1
    /\ quizView.score = 2
    /\ jobData = GenAnalysis
    /\ trainingPlan = [techStack |-> GenAnalysis.skills, studyPlan |-> GenPlan]
    /\ quiz = GenQuiz
    /\ challenges = GenChallenges

(***************************************************************************)
(* C21..C30                                                                *)
(***************************************************************************)
PendingOf(cs, owner, op) ==
    Cardinality({i \in DOMAIN cs : cs[i].owner = owner /\ cs[i].op = op})

\* C21: no request is retried automatically.  A pipeline run has at most one
\* request per operation; its analyze request is issued by the submit that
\* starts it and its study plan, quiz and challenges requests by the arrival
\* of its analysis, never again; a reply to a dependent or refresh request,
\* failed or not, only removes that request; a refresh request appears only
\* when the user refreshes.
C21_NoAutomaticRetry ==
    [][ /\ \A r \in RunIds : \A op \in {"analyze"} \cup DependentOps :
            /\ PendingOf(calls', r, op) <= 1
            /\ PendingOf(calls', r, op) > PendingOf(calls, r, op) =>
                  IF op = "analyze"
                  THEN runs[r].pc = "idle" /\ runs'[r].pc = "analyzing"
                  ELSE runs[r].pc = "analyzing" /\ PendingOf(calls', r, "analyze") = 0
        /\ \A r \in RunIds :
            runs[r].pc = "analyzing" => PendingOf(calls, r, "analyze") = 1
        /\ \A i \in DOMAIN calls : \A reply \in RepliesFor(calls[i].op) :
            (DependentReturns(i, reply) \/ RefreshReturns(i, reply))
                => calls' = RemoveAt(calls, i)
        /\ \A op \in DependentOps :
            PendingOf(calls', Refresh, op) > PendingOf(calls, Refresh, op)
                => (refreshQuiz \/ refreshChallenges)
      ]_vars

\* a run whose every request failed has ended and nothing is pending
C21_Witness ==
    /\ calls = <<>>
    /\ RunsInFlight = {}
    /\ jobData = AnalyzeFallback(<<"a">>)
    /\ trainingPlan # Null /\ trainingPlan.studyPlan = <<>>
    /\ quiz = <<>>
    /\ challenges = <<TwoSum(jobData)>>

\* C22: when the request of runCodeWithAI fails (it is rejected, its text is
\* empty or its text is not JSON), the value returned has status 'Error',
\* the summary "System error occurred." and no test cases, and the
\* continuation of handleRun stores that value as the result and sets
\* isRunning to false in the code lab, as long as there is a code lab: once
\* a render has thrown, the component is gone and has no state to set.
C22_RunFailureStored ==
    [][ \A i \in DOMAIN editorCalls : \A reply \in FailureReplies :
          RunReturns(i, reply) =>
            LET c == editorCalls[i]
                out == runCodeWithAI(c.code, c.language, c.problemDescription, reply)
            IN /\ ~out.rejected
               /\ out.value.status = "Error"
               /\ out.value.summary = "System error occurred."
               /\ out.value.testCases = <<>>
               /\ ~crashed => /\ editor'.result = out.value
                               /\ ~editor'.isRunning
      ]_vars

\* the code lab shows the Error result of a failed run of typed code
C22_Witness ==
    /\ ~crashed
    /\ EditorShown(activeTab, jobData, challenges)
    /\ editor.code = "typed"
    /\ editor.activeTab = "output"
    /\ ~editor.isRunning
    /\ editor.result = RunFallback
    /\ editorCalls = <<>>

\* the replies to a hint request that count as a failure
HintFailures == {[kind |-> "reject"], [kind |-> "empty"]}

\* C23 as stated: getCodeHint returns a non-empty text, and the text it
\* returns on a failure is the same whatever the failure is (a rejected
\* request or an empty reply).
C23_OneFallbackHint ==
    Returned("hint") =>
        /\ ~client.out.rejected
        /\ client.out.value # ""
        /\ \A r1 \in HintFailures : \A r2 \in HintFailures :
              getCodeHint(client.code, client.language, client.problemDescription, r1)
                = getCodeHint(client.code, client.language, client.problemDescription, r2)

\* C23 amended: getCodeHint never rejects and returns a non-empty text: the
\* text of the reply when there is one, "Analyze the constraints and edge
\* cases carefully." when the request is rejected and "Try breaking the
\* problem into smaller steps." when the reply is empty.
C23_FallbackHintPerFailure ==
    Returned("hint") =>
        /\ ~client.out.rejected
        /\ client.out.value # ""
        /\ client.reply.kind = "reject" =>
              client.out.value = "Analyze the constraints and edge cases carefully."
        /\ client.reply.kind = "empty" =>
              client.out.value = "Try breaking the problem into smaller steps."
        /\ client.reply.kind = "text" => client.out.value = client.reply.value

\* getCodeHint has returned after its request was rejected
C23_Witness ==
    /\ Returned("hint")
    /\ client.reply.kind = "reject"
    /\ client.code = "typed"
    /\ client.out.value = "Analyze the constraints and edge cases carefully."

\* C24: whenever the challenge list is not empty, the active challenge
\* index of the code lab is an index of the list:
\* 0 <= activeChallengeIdx < challenges.length.
C24_ActiveChallengeExists ==
    challenges # <<>> =>
        /\ 0 <= editor.activeChallengeIdx
        /\ editor.activeChallengeIdx < Len(challenges)

\* C25: whenever a category is active in the quiz runner, the current
\* question exists: 0 <= currentIdx < number of questions of the category.
C25_CurrentQuestionExists ==
    quizView.activeCategory # NoCategory =>
        /\ 0 <= quizView.currentIdx
        /\ quizView.currentIdx < Len(ActiveQuestions(quiz, quizView.activeCategory))

\* C26: in the quiz runner a question is answered at most once and the next
\* question is reached only from an answered one.  At every moment
\* 0 <= score <= number of answered questions <= currentIdx + 1, the
\* answered questions being those before the current one and the current
\* one once its result is shown.  Every change of the quiz state is one of:
\* the quiz leaves the page; a category is selected, which sets score and
\* index to 0 and clears the selection; back to the topics; an answer to a
\* question not yet answered, which adds one to the score exactly when the
\* selected option is correctAnswer; the step to the next question from an
\* answered one.  Once the result of a question is shown, neither the
\* selection nor the score changes for that question.
C26_AnsweredOnceAndScored ==
    /\ [](/\ 0 <= quizView.score
          /\ quizView.score <= quizView.currentIdx + (IF quizView.showResult THEN 1 ELSE 0)
          /\ quizView.currentIdx + (IF quizView.showResult THEN 1 ELSE 0)
                <= quizView.currentIdx + 1)
    /\ [][ quizView' # quizView =>
            \/ quizView' = QuizInitial
            \/ /\ quizView.activeCategory = NoCategory
               /\ quizView'.activeCategory \in Categories
               /\ quizView'.score = 0
               /\ quizView'.currentIdx = 0
               /\ quizView'.selectedOption = NoOption
               /\ ~quizView'.showResult
            \/ quizView' = [quizView EXCEPT !.activeCategory = NoCategory]
            \/ /\ ~quizView.showResult
               /\ quizView.activeCategory # NoCategory
               /\ LET currentQ == ActiveQuestions(quiz, quizView.activeCategory)[quizView.currentIdx + 1]
                  IN quizView' = [quizView EXCEPT
                        !.showResult = TRUE,
                        !.selectedOption = quizView'.selectedOption,
                        !.score = IF quizView'.selectedOption = currentQ.correctAnswer
                                  THEN @ + 1 ELSE @]
               /\ quizView'.selectedOption # NoOption
            \/ /\ quizView.showResult
               /\ quizView' = [quizView EXCEPT !.currentIdx = @ + 1,
                                               !.selectedOption = NoOption,
                                               !.showResult = FALSE]
      ]_vars

\* the first question was answered correctly and the second one wrongly
C26_Witness ==
    /\ ~crashed
    /\ QuizShown(activeTab, jobData)
    /\ quiz = GenQuiz
    /\ quizView.activeCategory = "Aptitude"
    /\ quizView.currentIdx = 1
    /\ quizView.showResult
    /\ quizView.selectedOption = 0
    /\ quizView.score = 1

\* C27: a reply to a run or hint request is stored as the result or the
\* hint of the code lab only if the request was made for the challenge and
\* the language that are active when the reply arrives.
C27_ReplyBelongsToSelection ==
    [][ \A i \in DOMAIN editorCalls :
          LET c == editorCalls[i]
              current == ChallengeAt(challenges, editor.activeChallengeIdx)
          IN ( \/ \E reply \in RunReplies : RunReturns(i, reply)
               \/ \E reply \in HintReplies : HintReturns(i, reply) )
             => /\ c.language = editor.language
                /\ c.problemDescription = current.description
      ]_vars

\* C28: whenever no pipeline run is in progress and no request is awaiting
\* its reply, the stored quiz and the stored challenges were generated from
\* the stored analysis (jobData).
C28_ArtifactsOfStoredAnalysis ==
    (RunsInFlight = {} /\ calls = <<>> /\ jobData # Null) =>
        \A s \in Slots : origin[s] = jobData

\* C29 as stated: if every remote call settles, a run in progress ends:
\* loading, which an accepted submit sets, becomes false again.  The step
\* that clears loading either is the join of a run without error, which
\* makes the study plan view the active tab, or ends a run that threw, and
\* leaves the active tab as it was.
C29_SubmitSettles ==
    /\ loading ~> ~loading
    /\ [][ (loading /\ ~loading') =>
            \/ ~alertOpen /\ activeTab' = "plan" /\ jobData' # Null
            \/ alertOpen /\ ~alertOpen' /\ activeTab' = activeTab
      ]_vars

\* C29 amended: if every remote call settles, a run in progress either ends
\* (loading becomes false) or stops at the alert of its catch block, which
\* blocks with loading still set; the step that dismisses the alert makes
\* loading false.  The step that clears loading is the join of a run
\* without error, which makes the study plan view the active tab, or the
\* dismissal of the alert, which leaves the active tab as it was.
C29_SettlesOrAlerts ==
    /\ loading ~> (~loading \/ alertOpen)
    /\ [][ /\ (alertOpen /\ ~alertOpen') => ~loading'
           /\ (loading /\ ~loading') =>
                 \/ ~alertOpen /\ activeTab' = "plan" /\ jobData' # Null
                 \/ alertOpen /\ ~alertOpen' /\ activeTab' = activeTab
      ]_vars

\* a run that threw is stopped at its alert, loading still set, while the
\* plan view of an earlier run is the active tab
C29_Witness ==
    /\ loading
    /\ alertOpen
    /\ activeTab = "plan"
    /\ trainingPlan # Null

\* C30: the arguments an accepted submit passes to analyze match the
\* selected intake mode: an image payload is passed exactly when the mode
\* is image.  analyze attaches the image part exactly when an image payload
\* is passed and the JD text part exactly when the text is not empty.
C30_InputMatchesMode ==
    [][ (handleSubmit /\ error' = "") =>
          LET req == calls'[Len(calls')]
              parts == AnalyzeContents(req.text, req.imageBase64)
          IN /\ (req.imageBase64 # Undefined) <=> (analyzerTab = "image")
             /\ (\E k \in DOMAIN parts : parts[k].part = "inlineData")
                   <=> (req.imageBase64 # Undefined)
             /\ (\E k \in DOMAIN parts : parts[k].part = "text")
                   <=> (req.text # <<>>)
      ]_vars

====
